---- MODULE Spec2Model ----
(***************************************************************************)
(* Model of project2.ino: the MQ-3 alcohol detector sketch.  setup() runs  *)
(* once, then loop() runs forever.  Every statement of the sketch is one   *)
(* step; pc names the statement that runs next.                            *)
(***************************************************************************)
EXTENDS Integers, Sequences, FiniteSets, TLC

VARIABLES
    pc,           \* the statement the single thread executes next
    sensorValue,  \* global int sensorValue (line 5)
    voltage,      \* local float voltage of loop(), <<>> outside its scope
    relay,        \* output latch of RELAY_PIN
    pinDir,       \* direction of RELAY_PIN
    baud,         \* serial speed, 0 while the port is closed
    lineBuf,      \* characters printed on the serial line not yet terminated
    trace,        \* execution log, one sequence of entries per call of
                  \* setup() and loop(): statement, argument, pin level after
    room          \* iterations the execution log still has room for

vars == <<pc, sensorValue, voltage, relay, pinDir, baud, lineBuf, trace, room>>

(* ------------------------------ bounds --------------------------------- *)
MaxIter == 5      \* iterations of loop() kept in the execution log
HalfWindow == 8   \* readings taken on each side of the threshold when the
                  \* run is unbounded

(* ------------------------- program constants --------------------------- *)
RELAY_PIN == 8
THRESHOLD == 400
ADC_MAX == 1023
VREF == 5
BAUD_RATE == 9600
SETTLE_MS == 2000
PERIOD_MS == 1000

HIGH == "HIGH"
LOW == "LOW"
Level == {LOW, HIGH}

BANNER == "Alcohol Detection System Initialized"
VALUE_PREFIX == "MQ3 Value: "
ALARM_TEXT == "ALCOHOL DETECTED"
SAFE_TEXT == "SAFE - No Alcohol"

\* readings analogRead returns in the traced specification
Samples == {0, 100, 400, 500, 1023}
\* readings analogRead returns on the full range of the 10-bit converter
AdcRange == 0..ADC_MAX
\* readings analogRead returns in the unbounded run: the samples and the
\* readings around the threshold
NearThreshold == Samples \cup ((THRESHOLD - HalfWindow)..(THRESHOLD + HalfWindow))

(* --------------------------- pure helpers ------------------------------ *)
Digit(d) ==
    CASE d = 0 -> "0" [] d = 1 -> "1" [] d = 2 -> "2" [] d = 3 -> "3"
      [] d = 4 -> "4" [] d = 5 -> "5" [] d = 6 -> "6" [] d = 7 -> "7"
      [] d = 8 -> "8" [] d = 9 -> "9"

RECURSIVE ToDec(_)
\* Serial.println(int): the decimal digits of a non-negative int
ToDec(n) == IF n < 10 THEN Digit(n) ELSE ToDec(n \div 10) \o Digit(n % 10)

\* (sensorValue / 1023.0) * 5.0 as the exact fraction <<numerator, denominator>>
Voltage(v) == <<v * VREF, ADC_MAX>>

\* mutant: the comparison is not strict
Detected_ge(v) == v >= THRESHOLD

\* the condition of the if statement
Detected(v) == v > THRESHOLD

\* one entry of the execution log
Event(op, arg, pin) == [op |-> op, arg |-> arg, pin |-> pin]

\* the log after a statement ran, while there is room: the entry joins the
\* entries of the running call of setup() or loop()
Record(op, arg, pin) ==
    IF room > 0
    THEN [trace EXCEPT ![Len(trace)] = Append(@, Event(op, arg, pin))]
    ELSE trace

\* the log after the first statement of a call of loop() ran
RecordCall(op, arg, pin) ==
    IF room > 0 THEN Append(trace, <<Event(op, arg, pin)>>) ELSE trace

(* ------------------------------ Init ----------------------------------- *)
\* the state at reset, common to both specifications
Boot ==
    /\ pc = "serial_begin"
    /\ sensorValue = 0
    /\ voltage = <<>>
    /\ relay \in Level
    /\ pinDir = "INPUT"
    /\ baud = 0
    /\ lineBuf = ""
    /\ trace = << <<>> >>

Init == Boot /\ room = MaxIter

\* nothing is logged
InitADC == Boot /\ room = 0

(* ------------------------------ setup() -------------------------------- *)
SerialBegin ==
    /\ pc = "serial_begin"
    /\ baud' = BAUD_RATE
    /\ pc' = "pin_mode"
    /\ trace' = Record("Serial.begin", BAUD_RATE, relay)
    /\ UNCHANGED <<sensorValue, voltage, relay, pinDir, lineBuf, room>>

PinMode ==
    /\ pc = "pin_mode"
    /\ pinDir' = "OUTPUT"
    /\ pc' = "setup_write"
    /\ trace' = Record("pinMode", RELAY_PIN, relay)
    /\ UNCHANGED <<sensorValue, voltage, relay, baud, lineBuf, room>>

\* mutant: setup() drives the pin to the active level
SetupWrite_low ==
    /\ pc = "setup_write"
    /\ relay' = LOW
    /\ pc' = "setup_delay"
    /\ trace' = Record("digitalWrite", LOW, LOW)
    /\ UNCHANGED <<sensorValue, voltage, pinDir, baud, lineBuf, room>>


SetupWrite ==
    /\ pc = "setup_write"
    /\ relay' = HIGH
    /\ pc' = "setup_delay"
    /\ trace' = Record("digitalWrite", HIGH, HIGH)
    /\ UNCHANGED <<sensorValue, voltage, pinDir, baud, lineBuf, room>>

SetupDelay ==
    /\ pc = "setup_delay"
    /\ pc' = "banner"
    /\ trace' = Record("delay", SETTLE_MS, relay)
    /\ UNCHANGED <<sensorValue, voltage, relay, pinDir, baud, lineBuf, room>>

\* mutant: setup() prints no banner
Banner_none ==
    /\ pc = "banner"
    /\ pc' = "read"
    /\ UNCHANGED <<sensorValue, voltage, relay, pinDir, baud, lineBuf, trace, room>>


Banner ==
    /\ pc = "banner"
    /\ pc' = "read"
    /\ lineBuf' = ""
    /\ trace' = Record("println", lineBuf \o BANNER, relay)
    /\ UNCHANGED <<sensorValue, voltage, relay, pinDir, baud, room>>

(* ------------------------------- loop() -------------------------------- *)
\* sensorValue = analogRead(MQ3_PIN) returning r
Read(r) ==
    /\ pc = "read"
    /\ sensorValue' = r
    /\ pc' = "voltage"
    /\ trace' = RecordCall("analogRead", r, relay)
    /\ UNCHANGED <<voltage, relay, pinDir, baud, lineBuf, room>>

\* the traced run stops once the execution log is full
LoopRead == room > 0 /\ \E r \in Samples : Read(r)

LoopReadADC == \E r \in AdcRange : Read(r)

LoopReadNear == \E r \in NearThreshold : Read(r)

\* mutant: the reading is not reported
LoopVoltage_noreport ==
    /\ pc = "voltage"
    /\ voltage' = Voltage(sensorValue)
    /\ pc' = "if"
    /\ trace' = Record("voltage", sensorValue, relay)
    /\ UNCHANGED <<sensorValue, relay, pinDir, baud, lineBuf, room>>


LoopVoltage ==
    /\ pc = "voltage"
    /\ voltage' = Voltage(sensorValue)
    /\ pc' = "print_prefix"
    /\ trace' = Record("voltage", sensorValue, relay)
    /\ UNCHANGED <<sensorValue, relay, pinDir, baud, lineBuf, room>>

PrintPrefix ==
    /\ pc = "print_prefix"
    /\ lineBuf' = lineBuf \o VALUE_PREFIX
    /\ pc' = "print_value"
    /\ trace' = Record("print", VALUE_PREFIX, relay)
    /\ UNCHANGED <<sensorValue, voltage, relay, pinDir, baud, room>>

PrintValue ==
    /\ pc = "print_value"
    /\ lineBuf' = ""
    /\ pc' = "if"
    /\ trace' = Record("println", lineBuf \o ToDec(sensorValue), relay)
    /\ UNCHANGED <<sensorValue, voltage, relay, pinDir, baud, room>>

\* mutant: hysteresis, an active relay is released only below 300
LoopIf_hysteresis ==
    /\ pc = "if"
    /\ pc' = IF sensorValue > THRESHOLD \/ (relay = LOW /\ sensorValue > 300)
             THEN "alarm_write" ELSE "safe_write"
    /\ trace' = Record("if", Detected(sensorValue), relay)
    /\ UNCHANGED <<sensorValue, voltage, relay, pinDir, baud, lineBuf, room>>

\* mutant: the else branch does not write the pin
LoopIf_nowrite ==
    /\ pc = "if"
    /\ pc' = IF Detected(sensorValue) THEN "alarm_write" ELSE "safe_println"
    /\ trace' = Record("if", Detected(sensorValue), relay)
    /\ UNCHANGED <<sensorValue, voltage, relay, pinDir, baud, lineBuf, room>>


LoopIf ==
    /\ pc = "if"
    /\ pc' = IF Detected(sensorValue) THEN "alarm_write" ELSE "safe_write"
    /\ trace' = Record("if", Detected(sensorValue), relay)
    /\ UNCHANGED <<sensorValue, voltage, relay, pinDir, baud, lineBuf, room>>

\* mutant: the alarm branch toggles the pin
AlarmWrite_toggle ==
    /\ pc = "alarm_write"
    /\ relay' = IF relay = LOW THEN HIGH ELSE LOW
    /\ pc' = "alarm_println"
    /\ trace' = Record("digitalWrite", relay', relay')
    /\ UNCHANGED <<sensorValue, voltage, pinDir, baud, lineBuf, room>>


AlarmWrite ==
    /\ pc = "alarm_write"
    /\ relay' = LOW
    /\ pc' = "alarm_println"
    /\ trace' = Record("digitalWrite", LOW, LOW)
    /\ UNCHANGED <<sensorValue, voltage, pinDir, baud, lineBuf, room>>

\* mutant: the alarm branch prints the text of the other branch
AlarmPrintln_safe ==
    /\ pc = "alarm_println"
    /\ lineBuf' = ""
    /\ pc' = "loop_delay"
    /\ trace' = Record("println", lineBuf \o SAFE_TEXT, relay)
    /\ UNCHANGED <<sensorValue, voltage, relay, pinDir, baud, room>>


AlarmPrintln ==
    /\ pc = "alarm_println"
    /\ lineBuf' = ""
    /\ pc' = "loop_delay"
    /\ trace' = Record("println", lineBuf \o ALARM_TEXT, relay)
    /\ UNCHANGED <<sensorValue, voltage, relay, pinDir, baud, room>>

\* mutant: the else branch drives the pin to the active level
SafeWrite_low ==
    /\ pc = "safe_write"
    /\ relay' = LOW
    /\ pc' = "safe_println"
    /\ trace' = Record("digitalWrite", LOW, LOW)
    /\ UNCHANGED <<sensorValue, voltage, pinDir, baud, lineBuf, room>>


SafeWrite ==
    /\ pc = "safe_write"
    /\ relay' = HIGH
    /\ pc' = "safe_println"
    /\ trace' = Record("digitalWrite", HIGH, HIGH)
    /\ UNCHANGED <<sensorValue, voltage, pinDir, baud, lineBuf, room>>

SafePrintln ==
    /\ pc = "safe_println"
    /\ lineBuf' = ""
    /\ pc' = "loop_delay"
    /\ trace' = Record("println", lineBuf \o SAFE_TEXT, relay)
    /\ UNCHANGED <<sensorValue, voltage, relay, pinDir, baud, room>>

\* mutant: loop() is not called again after the delay
LoopDelay_halt ==
    /\ pc = "loop_delay"
    /\ pc' = "halt"
    /\ trace' = Record("delay", PERIOD_MS, relay)
    /\ room' = IF room > 0 THEN room - 1 ELSE 0
    /\ voltage' = <<>>
    /\ UNCHANGED <<sensorValue, relay, pinDir, baud, lineBuf>>

\* delay(1000), after which loop() returns and is called again
LoopDelay ==
    /\ pc = "loop_delay"
    /\ pc' = "read"
    /\ trace' = Record("delay", PERIOD_MS, relay)
    /\ room' = IF room > 0 THEN room - 1 ELSE 0
    /\ voltage' = <<>>
    /\ UNCHANGED <<sensorValue, relay, pinDir, baud, lineBuf>>

(* --------------------------- specifications ---------------------------- *)
Setup == SerialBegin \/ PinMode \/ SetupWrite \/ SetupDelay \/ Banner

Body ==
    \/ LoopVoltage \/ PrintPrefix \/ PrintValue \/ LoopIf
    \/ AlarmWrite \/ AlarmPrintln \/ SafeWrite \/ SafePrintln \/ LoopDelay

Next == Setup \/ LoopRead \/ Body

NextADC == Setup \/ LoopReadADC \/ Body

NextNear == Setup \/ LoopReadNear \/ Body

\* the traced run: readings from Samples, MaxIter iterations, all logged
Spec == Init /\ [][Next]_vars

\* the full converter range, nothing logged
SpecADC == InitADC /\ [][NextADC]_vars

\* the unbounded run: nothing logged, and the single thread always takes its
\* next step
FairSpec == InitADC /\ [][NextNear]_vars /\ WF_vars(NextNear)

(* ------------------------ reading the log ------------------------------ *)
\* the number of calls of loop() begun
Begun == Len(trace) - 1

\* the log entries of the k-th call of loop()
Iter(k) == trace[k + 1]

\* the log entries of setup()
SetupLog == trace[1]

Ops(log) == [i \in 1..Len(log) |-> log[i].op]
OnlyOp(log, op) == SelectSeq(log, LAMBDA e : e.op = op)
ArgsOf(log, op) == [i \in 1..Len(OnlyOp(log, op)) |-> OnlyOp(log, op)[i].arg]
LastOf(log) == log[Len(log)]

\* the k-th iteration has run to the end of its delay
Complete(k) == k \in 1..Begun /\ LastOf(Iter(k)).op = "delay"
Completed == {k \in 1..Begun : Complete(k)}

Reading(k) == Iter(k)[1].arg
\* the pin level when the k-th iteration ends
EndPin(k) == LastOf(Iter(k)).pin
\* the serial lines of the k-th iteration
LinesOf(k) == ArgsOf(Iter(k), "println")
\* the levels written to the pin in the k-th iteration
WritesOf(k) == ArgsOf(Iter(k), "digitalWrite")
\* the last serial line of the k-th iteration
ClassLine(k) == LastOf(OnlyOp(Iter(k), "println")).arg

(* ------------------------------ C1 ------------------------------------- *)
\* C1: for every reading r in 0..1023, when the iteration that sampled r has
\* written the pin and printed, the pin is LOW if and only if r > 400 and HIGH
\* otherwise; 400 gives HIGH and 401 gives LOW.
C1_ThresholdDecides ==
    pc = "loop_delay" =>
        /\ (sensorValue > 400 => relay = "LOW")
        /\ (sensorValue <= 400 => relay = "HIGH")
        /\ (sensorValue = 400 => relay = "HIGH")
        /\ (sensorValue = 401 => relay = "LOW")

C1_Witness == pc = "loop_delay" /\ sensorValue = 401 /\ relay = "LOW"

(* ------------------------------ C2 ------------------------------------- *)
\* C2: once setup() has written the pin and until the first analogRead of
\* loop(), through the settle delay and the banner, the pin is HIGH.
C2_InactiveBeforeFirstSample ==
    (Len(OnlyOp(SetupLog, "digitalWrite")) > 0 /\ Begun = 0) => relay = "HIGH"

C2_Witness ==
    /\ pc = "read" /\ Begun = 0 /\ relay = "HIGH"
    /\ Ops(SetupLog) = <<"Serial.begin", "pinMode", "digitalWrite", "delay", "println">>

(* ------------------------------ C3 ------------------------------------- *)
ScenarioDone ==
    /\ Completed = 1..5
    /\ [k \in 1..5 |-> Reading(k)] = <<100, 500, 400, 1023, 0>>

\* C3: five iterations from the post-setup state sampling 100, 500, 400,
\* 1023, 0 end with the pin HIGH, LOW, HIGH, LOW, HIGH and print the
\* classification lines SAFE, ALARM, SAFE, ALARM, SAFE in that order.
C3_Scenario ==
    ScenarioDone =>
        /\ [k \in 1..5 |-> EndPin(k)] = <<"HIGH", "LOW", "HIGH", "LOW", "HIGH">>
        /\ [k \in 1..5 |-> ClassLine(k)] =
               <<"SAFE - No Alcohol", "ALCOHOL DETECTED", "SAFE - No Alcohol",
                 "ALCOHOL DETECTED", "SAFE - No Alcohol">>

C3_Witness == ScenarioDone /\ pc = "read" /\ relay = "HIGH"

(* ------------------------------ C4 ------------------------------------- *)
\* the line expected for a reading, written out for the sampled readings
ReadingLine(r) ==
    CASE r = 0 -> "MQ3 Value: 0"
      [] r = 100 -> "MQ3 Value: 100"
      [] r = 400 -> "MQ3 Value: 400"
      [] r = 500 -> "MQ3 Value: 500"
      [] r = 1023 -> "MQ3 Value: 1023"

\* C4: every iteration prints exactly two lines, the reading line first and
\* then one classification line, which is ALCOHOL DETECTED exactly when the
\* iteration drove the pin LOW and SAFE - No Alcohol exactly when it drove it
\* HIGH; the text agrees with the pin level when it is printed.
C4_TwoLinesAgree ==
    \A k \in Completed :
        LET lines == OnlyOp(Iter(k), "println") IN
        /\ Len(lines) = 2
        /\ lines[1].arg = ReadingLine(Reading(k))
        /\ lines[2].arg \in {"ALCOHOL DETECTED", "SAFE - No Alcohol"}
        /\ (lines[2].arg = "ALCOHOL DETECTED" <=> WritesOf(k) = <<"LOW">>)
        /\ (lines[2].arg = "SAFE - No Alcohol" <=> WritesOf(k) = <<"HIGH">>)
        /\ (lines[2].arg = "ALCOHOL DETECTED" <=> lines[2].pin = "LOW")
        /\ (lines[2].pin = EndPin(k))

C4_Witness ==
    \E k \in Completed : \E j \in Completed :
        /\ LinesOf(k) = <<"MQ3 Value: 1023", "ALCOHOL DETECTED">>
        /\ LinesOf(j) = <<"MQ3 Value: 400", "SAFE - No Alcohol">>
(* ------------------------------ C5 ------------------------------------- *)
\* the positions in a call's log of the entries of statement op
At(log, op) == {i \in 1..Len(log) : log[i].op = op}

\* C5 as stated: in every iteration the steps run in the order sample, decide,
\* actuate, report, wait, so the pin write precedes every serial line of the
\* iteration and the delay comes last.
C5_WriteBeforeEveryLine ==
    \A k \in Completed :
        LET log == Iter(k) IN
        /\ log[1].op = "analogRead"
        /\ \A w \in At(log, "digitalWrite") : \A l \in At(log, "println") : w < l
        /\ At(log, "delay") = {Len(log)}

\* C5 amended: in every iteration the steps run in the order sample, print
\* the reading line, decide, write the pin, print the classification line,
\* wait; the pin write follows the reading line and precedes the
\* classification line, and the delay comes last.
C5_Order ==
    \A k \in Completed :
        Ops(Iter(k)) = <<"analogRead", "voltage", "print", "println", "if",
                         "digitalWrite", "println", "delay">>

C5_Witness ==
    \E k \in Completed :
        /\ Reading(k) = 500
        /\ Iter(k)[4].arg = "MQ3 Value: 500"
        /\ Iter(k)[6].arg = "LOW"
        /\ Iter(k)[7].arg = "ALCOHOL DETECTED"

(* ------------------------------ C6 ------------------------------------- *)
\* what the k-th iteration did to the pin and printed as classification
Outcome(k) == <<WritesOf(k), EndPin(k), ClassLine(k)>>

\* the pin level when the k-th iteration began
PinBefore(k) == Iter(k)[1].pin

\* C6: the pin level and the classification line of an iteration depend only
\* on the reading it sampled: iterations that sampled the same reading, first
\* or later, after whatever readings and pin level, have the same outcome.
C6_OnlyCurrentReading ==
    \A k \in Completed : \A j \in Completed :
        Reading(k) = Reading(j) => Outcome(k) = Outcome(j)

C6_Witness ==
    /\ {1, 2, 3, 4} \subseteq Completed
    /\ Reading(1) = 400 /\ Reading(2) = 500 /\ Reading(3) = 400
    /\ Reading(4) = 500
    /\ PinBefore(1) = "HIGH" /\ PinBefore(3) = "LOW"
    /\ PinBefore(2) = "HIGH" /\ PinBefore(4) = "HIGH"

(* ------------------------------ C7 ------------------------------------- *)
\* the pin levels logged from the write of iteration k to the write of
\* iteration k + 1, both included
Between(k) ==
    LET a == Iter(k)
        b == Iter(k + 1)
        wa == CHOOSE i \in At(a, "digitalWrite") : TRUE
        wb == CHOOSE i \in At(b, "digitalWrite") : TRUE
    IN {a[i].pin : i \in wa..Len(a)} \cup {b[i].pin : i \in 1..wb}

\* C7: when two consecutive iterations reach the same decision, the pin level
\* after the second equals the level after the first and the pin holds that
\* one level from the first write through the second.
C7_Idempotent ==
    \A k \in Completed :
        (k + 1 \in Completed /\ (Reading(k) > 400 <=> Reading(k + 1) > 400)) =>
            /\ EndPin(k + 1) = EndPin(k)
            /\ Between(k) = {EndPin(k)}

C7_Witness ==
    /\ {1, 2, 3, 4} \subseteq Completed
    /\ Reading(1) = 500 /\ Reading(2) = 1023
    /\ Reading(3) = 100 /\ Reading(4) = 400
    /\ EndPin(1) = "LOW" /\ EndPin(2) = "LOW"
    /\ EndPin(3) = "HIGH" /\ EndPin(4) = "HIGH"
(* ------------------------------ C8 ------------------------------------- *)
InLoop == pc \notin {"serial_begin", "pin_mode", "setup_write", "setup_delay", "banner"}
Sampled == pc = "voltage"
Written == pc \in {"alarm_println", "safe_println"}
Classified == pc = "loop_delay"

\* C8: the loop never stops: a sample is taken again and again, every sample
\* is followed by a pin write, a classification line and the delay, after
\* which the next sample is taken, and some step is possible in every state.
C8_RunsForever ==
    /\ []<>Sampled
    /\ (Sampled ~> Written)
    /\ (Written ~> Classified)
    /\ (Classified ~> pc = "read")
    /\ (pc = "read" ~> Sampled)
    /\ [](ENABLED NextNear)

C8_Witness == pc = "read" /\ sensorValue = 401 /\ relay = "LOW"

(* ------------------------------ C9 ------------------------------------- *)
WriteStatements == {"setup_write", "alarm_write", "safe_write"}

\* C9: the pin is written exactly once in setup() and exactly once in every
\* iteration of loop(), and no statement but these writes changes its level.
C9_OneWritePerCall ==
    /\ [](InLoop => Len(OnlyOp(SetupLog, "digitalWrite")) = 1)
    /\ [](\A k \in Completed : Len(OnlyOp(Iter(k), "digitalWrite")) = 1)
    /\ [][relay' # relay => pc \in WriteStatements]_vars
    /\ [](\A c \in 1..Len(trace) : \A i \in 2..Len(trace[c]) :
            trace[c][i].pin # trace[c][i - 1].pin =>
                trace[c][i].op = "digitalWrite")

C9_Witness ==
    /\ {1, 2} \subseteq Completed
    /\ WritesOf(1) = <<"LOW">> /\ WritesOf(2) = <<"HIGH">>
    /\ ArgsOf(SetupLog, "digitalWrite") = <<"HIGH">>

(* ------------------------------ C10 ------------------------------------ *)
\* every serial line of the run, in order
RECURSIVE AllLines(_)
AllLines(c) ==
    IF c > Len(trace) THEN <<>> ELSE ArgsOf(trace[c], "println") \o AllLines(c + 1)

\* C10: startup drives the pin HIGH, then holds the 2000 ms delay, then
\* prints the banner, all before the first sample; the banner is printed
\* once, as the first serial line of the run.
C10_StartupOrder ==
    LET w == At(SetupLog, "digitalWrite")
        d == At(SetupLog, "delay")
        b == At(SetupLog, "println")
        lines == AllLines(1)
    IN /\ InLoop =>
            /\ Cardinality(w) = 1 /\ Cardinality(d) = 1 /\ Cardinality(b) = 1
            /\ \A i \in w : \A j \in d : \A l \in b :
                  /\ i < j /\ j < l
                  /\ SetupLog[i].arg = "HIGH" /\ SetupLog[i].pin = "HIGH"
                  /\ SetupLog[j].arg = 2000
                  /\ SetupLog[l].arg = "Alcohol Detection System Initialized"
            /\ lines[1] = "Alcohol Detection System Initialized"
       /\ Begun > 0 => InLoop
       /\ \A i \in 2..Len(lines) :
              lines[i] # "Alcohol Detection System Initialized"

C10_Witness ==
    /\ Completed = {1}
    /\ AllLines(1) = <<"Alcohol Detection System Initialized",
                       "MQ3 Value: 500", "ALCOHOL DETECTED">>
====
